---- MODULE Spec2Model ----
(***************************************************************************)
(* Model of the personalization-and-exploration engine of the ML service:  *)
(* the contextual Thompson-sampling bandit (ml/models/thompson.py), the    *)
(* user profile store (ml/models/user_profile.py) and the feedback handler *)
(* (ml/api/routes.py).                                                     *)
(*                                                                         *)
(* Python strings that the code cuts or joins (place ids, categories,      *)
(* buckets, persisted keys) are sequences of tokens, so that               *)
(* f"{pid}|{bucket}" and key.split('|', 1) are computed and not assumed to *)
(* be inverse to each other.  The tokens are the words below; no token is  *)
(* a prefix of another, so two token sequences are equal exactly when the  *)
(* strings they spell are equal, and "|" and "_" occur only as tokens of   *)
(* their own.  A Python dict whose iteration order the code depends on     *)
(* (the arm table, the persisted mapping) is a sequence of entries with    *)
(* distinct keys, in insertion order.                                      *)
(***************************************************************************)
EXTENDS Integers, Sequences, FiniteSets, TLC

VARIABLES
    arms,       \* bandit.arms: ordered dict (place_id, bucket) -> {alpha, beta}
    file,       \* content of thompson_state.json (NoFile, Corrupt or a dict)
    hist,       \* history: for each arm created by this process, the rewards applied to it
    nObs,       \* number of bandit updates applied so far (bounds the run)
    profiles,   \* user_profile._profiles: user id -> profile, values in thousandths
    pfile,      \* content of user_profiles.json
    nProf,      \* number of update_profile calls so far (bounds the run)
    focus,      \* the (user id, category) a long run of profile updates is about
    pending,    \* feedback requests received and not yet handled: request -> count
    sent,       \* history: the requests received so far: request -> count
    lastSave,   \* history: how the latest _save_state of the bandit ended
    model,      \* recommender.model: "loaded", or "none" when load_model found no file
    ret,        \* the latest value returned (or exception raised) by a recorded call
    nCalls,     \* number of recorded scoring and startup calls so far (bounds the run)
    boot        \* history: the state file the bandit was constructed from

(***************************************************************************)
(* Bounds of the model.                                                    *)
(***************************************************************************)
MaxObs == 2
MaxArms == 2
MaxProfileUpdates == 3
MaxRequests == 2
MaxCalls == 2
MaxLongObs == 21

(***************************************************************************)
(* String literals.                                                        *)
(***************************************************************************)
PIPE == "|"
S_morning == <<"morning">>
S_afternoon == <<"afternoon">>
S_evening == <<"evening">>
S_night == <<"night">>
S_food == <<"food">>
S_outdoor == <<"outdoor">>
S_entertainment == <<"entertainment">>
S_culture == <<"culture">>
S_museum == <<"museum">>
S_alex == <<"alex">>
S_jordan == <<"jordan">>
S_sam == <<"sam">>
S_maya_okc == <<"maya_okc">>
S_chris_dallas == <<"chris_dallas">>
S_newbie == <<"newbie">>
\* the empty string and the object None
S_empty == <<>>
PyNone == <<"<None>">>
S_x == <<"x">>
S_x_y == <<"x", "|", "y">>

PlaceIds == {S_x, S_x_y}
Categories == {S_food, S_outdoor}
Hours == {8, 22}
Rewards == {0, 1}

\* a persistence file: absent, holding a JSON object (an ordered mapping), or
\* holding text that json.load rejects
NoFile == [kind |-> "absent", data |-> <<>>]
Corrupt == [kind |-> "unreadable", data |-> <<>>]
Json(d) == [kind |-> "json", data |-> d]

(***************************************************************************)
(* Python dict as an insertion-ordered sequence of entries [k, v].         *)
(***************************************************************************)
DictKeys(d) == {d[i].k : i \in 1..Len(d)}

DictHas(d, k) == \E i \in 1..Len(d) : d[i].k = k

DictGet(d, k) == d[CHOOSE i \in 1..Len(d) : d[i].k = k].v

\* d[k] = v: an existing key keeps its position, a new key goes last
DictSet(d, k, v) ==
    IF DictHas(d, k)
    THEN [i \in 1..Len(d) |-> IF d[i].k = k THEN [k |-> k, v |-> v] ELSE d[i]]
    ELSE Append(d, [k |-> k, v |-> v])

(***************************************************************************)
(* ContextualThompsonSampling                                              *)
(***************************************************************************)
\* mutant: the upper hour of a period belongs to it
time_bucket_inclusive(hour) ==
    IF 6 <= hour /\ hour <= 11 THEN S_morning
    ELSE IF 11 <= hour /\ hour <= 17 THEN S_afternoon
    ELSE IF 17 <= hour /\ hour <= 21 THEN S_evening
    ELSE S_night

time_bucket(hour) ==
    IF 6 <= hour /\ hour < 11 THEN S_morning
    ELSE IF 11 <= hour /\ hour < 17 THEN S_afternoon
    ELSE IF 17 <= hour /\ hour < 21 THEN S_evening
    ELSE S_night

\* mutant: the hour is not looked at
_get_context_bucket_no_hour(hour, category) == S_morning \o <<"_">> \o category

\* f"{time_bucket}_{category}"
_get_context_bucket(hour, category) == time_bucket(hour) \o <<"_">> \o category

NewArm == [alpha |-> 1, beta |-> 1]

\* mutant: the arm is (re)created at every call
_get_arm_always_new(a, place_id, context_bucket) ==
    LET key == <<place_id, context_bucket>>
    IN  IF DictHas(a, key)
        THEN [i \in 1..Len(a) |-> IF a[i].k = key THEN [k |-> key, v |-> NewArm] ELSE a[i]]
        ELSE Append(a, [k |-> key, v |-> NewArm])

\* the arm table after _get_arm(place_id, context_bucket)
_get_arm(a, place_id, context_bucket) ==
    LET key == <<place_id, context_bucket>>
    IN  IF ~DictHas(a, key) THEN DictSet(a, key, NewArm) ELSE a

\* mutant: both counters move
update_arms_both(a, place_id, category, hour, reward) ==
    LET bucket == _get_context_bucket(hour, category)
        key == <<place_id, bucket>>
        a1 == _get_arm(a, place_id, bucket)
        arm == DictGet(a1, key)
    IN  [i \in 1..Len(a1) |->
            IF a1[i].k = key
            THEN [k |-> key, v |-> [alpha |-> arm.alpha + 1, beta |-> arm.beta + 1]]
            ELSE a1[i]]

\* mutant: the counter is computed from a new arm, not from the arm's value
update_arms_stale(a, place_id, category, hour, reward) ==
    LET bucket == _get_context_bucket(hour, category)
        key == <<place_id, bucket>>
        a1 == _get_arm(a, place_id, bucket)
    IN  IF reward = 1
        THEN DictSet(a1, key, [NewArm EXCEPT !.alpha = @ + 1])
        ELSE DictSet(a1, key, [NewArm EXCEPT !.beta = @ + 1])

\* mutant: the reward test is inverted
update_arms_swapped(a, place_id, category, hour, reward) ==
    LET bucket == _get_context_bucket(hour, category)
        key == <<place_id, bucket>>
        a1 == _get_arm(a, place_id, bucket)
        arm == DictGet(a1, key)
    IN  [i \in 1..Len(a1) |->
            IF a1[i].k = key
            THEN [k |-> key,
                  v |-> IF reward = 1 THEN [arm EXCEPT !.beta = @ + 1]
                                      ELSE [arm EXCEPT !.alpha = @ + 1]]
            ELSE a1[i]]

\* the arm table after the read-modify-write of update, before _save_state
update_arms(a, place_id, category, hour, reward) ==
    LET bucket == _get_context_bucket(hour, category)
        key == <<place_id, bucket>>
        a1 == _get_arm(a, place_id, bucket)
        arm == DictGet(a1, key)
    IN  IF reward = 1
        THEN DictSet(a1, key, [arm EXCEPT !.alpha = @ + 1])
        ELSE DictSet(a1, key, [arm EXCEPT !.beta = @ + 1])

\* str(pid) as an f-string formats it
Str(pid) == IF pid = PyNone THEN <<"None">> ELSE pid

\* f"{pid}|{bucket}"
ArmKeyString(key) == Str(key[1]) \o <<PIPE>> \o key[2]

RECURSIVE serialize(_, _)
serialize(a, i) ==
    IF i = 0 THEN <<>>
    ELSE DictSet(serialize(a, i - 1), ArmKeyString(a[i].k), a[i].v)

\* the file after a _save_state whose write succeeds
_save_state(a) == Json(serialize(a, Len(a)))

\* key.split('|', 1)
split1(s) ==
    IF \E i \in 1..Len(s) : s[i] = PIPE
    THEN LET i == CHOOSE j \in 1..Len(s) :
                    s[j] = PIPE /\ \A m \in 1..(j - 1) : s[m] # PIPE
         IN  <<SubSeq(s, 1, i - 1), SubSeq(s, i + 1, Len(s))>>
    ELSE <<s>>

RECURSIVE deserialize(_, _)
deserialize(data, i) ==
    IF i = 0 THEN <<>>
    ELSE LET parts == split1(data[i].k)
             rest == deserialize(data, i - 1)
         IN  IF Len(parts) = 2
             THEN DictSet(rest, <<parts[1], parts[2]>>, data[i].v)
             ELSE rest

\* the arm table a new ContextualThompsonSampling has after _load_state
_load_state(f) ==
    IF f.kind = "json" THEN deserialize(f.data, Len(f.data)) ELSE <<>>

\* round(num / den, 3) in thousandths.  A quotient halfway between two
\* thousandths needs den to be a multiple of 16; it goes to the even neighbour
\* (for den < 80 such a quotient is a binary fraction, so the float is exact).
Round3(num, den) ==
    LET q == (1000 * num) \div den
        r2 == 2 * ((1000 * num) % den)
    IN  IF r2 < den THEN q
        ELSE IF r2 > den THEN q + 1
        ELSE IF q % 2 = 0 THEN q ELSE q + 1

uncertainty_inclusive(obs) ==
    IF obs <= 5 THEN "high" ELSE IF obs <= 20 THEN "medium" ELSE "low"

uncertainty(obs) ==
    IF obs < 5 THEN "high" ELSE IF obs < 20 THEN "medium" ELSE "low"

\* what explain returns when called on arm table a
explain_result(a, place_id, category, hour) ==
    LET bucket == _get_context_bucket(hour, category)
        arm == DictGet(_get_arm(a, place_id, bucket), <<place_id, bucket>>)
        obs == arm.alpha + arm.beta - 2
    IN  [context |-> bucket,
         observations_in_context |-> obs,
         expected_quality |-> Round3(arm.alpha, arm.alpha + arm.beta),
         uncertainty |-> uncertainty(obs),
         explanation |-> [likes |-> arm.alpha - 1, skips |-> arm.beta - 1,
                          exploring |-> obs < 5]]

\* the stats dict after get_all_stats has walked the first i arms
RECURSIVE all_stats(_, _)
all_stats(a, i) ==
    IF i = 0 THEN <<>>
    ELSE LET arm == a[i].v
         IN  DictSet(all_stats(a, i - 1), ArmKeyString(a[i].k),
                     [place_id |-> a[i].k[1],
                      context |-> a[i].k[2],
                      alpha |-> arm.alpha,
                      beta |-> arm.beta,
                      expected_value |-> Round3(arm.alpha, arm.alpha + arm.beta),
                      observations |-> arm.alpha + arm.beta - 2])

Min(x, y) == IF x < y THEN x ELSE y

\* mutant: a sampled arm counts the sample as an observation without reward
RECURSIVE sample_arms_counting(_, _, _, _, _)
sample_arms_counting(a, place_ids, categories, hour, n) ==
    IF n = 0 THEN a
    ELSE update_arms(sample_arms_counting(a, place_ids, categories, hour, n - 1),
                     place_ids[n], categories[n], hour, 0)

\* the arm table after sample_scores has walked the first n pairs of zip(place_ids, categories)
RECURSIVE sample_arms(_, _, _, _, _)
sample_arms(a, place_ids, categories, hour, n) ==
    IF n = 0 THEN a
    ELSE _get_arm(sample_arms(a, place_ids, categories, hour, n - 1),
                  place_ids[n], _get_context_bucket(hour, categories[n]))

\* float(np.random.beta(arm['alpha'], arm['beta'])): a draw is told by the arm
\* it is drawn from and the parameters of its distribution
BetaDraw(key, arm) == [arm |-> key, alpha |-> arm.alpha, beta |-> arm.beta]

\* the scores dict after sample_scores, called on arm table a, has walked the
\* first n pairs
RECURSIVE sample_dict(_, _, _, _, _)
sample_dict(a, place_ids, categories, hour, n) ==
    IF n = 0 THEN <<>>
    ELSE LET key == <<place_ids[n], _get_context_bucket(hour, categories[n])>>
             a2 == sample_arms(a, place_ids, categories, hour, n)
         IN  DictSet(sample_dict(a, place_ids, categories, hour, n - 1),
                     place_ids[n], BetaDraw(key, DictGet(a2, key)))

\* outcomes of the write in _save_state: written, or the exception caught
\* before (file untouched) or after (file cut short) open(..., 'w') truncated it
DiskOutcomes == {"ok", "untouched", "truncated"}

written(f, disk, content) ==
    IF disk = "ok" THEN content
    ELSE IF disk = "untouched" THEN f
    ELSE Corrupt

(***************************************************************************)
(* History of the rewards applied to the arms this process created.        *)
(***************************************************************************)
NoRewards == [ones |-> 0, zeros |-> 0]

Created(a, a2, h) ==
    [k \in DOMAIN h \cup (DictKeys(a2) \ DictKeys(a)) |->
        IF k \in DOMAIN h THEN h[k] ELSE NoRewards]

Rewarded(h, key, reward) ==
    IF key \in DOMAIN h
    THEN [h EXCEPT ![key] = IF reward = 1 THEN [@ EXCEPT !.ones = @ + 1]
                                          ELSE [@ EXCEPT !.zeros = @ + 1]]
    ELSE h

banditVars == <<arms, file, hist, nObs>>
profileVars == <<profiles, pfile, nProf, focus>>
requestVars == <<pending, sent, lastSave>>
callVars == <<model, ret, nCalls, boot>>
vars == <<arms, file, hist, nObs, profiles, pfile, nProf, focus, pending, sent, lastSave,
          model, ret, nCalls, boot>>

(***************************************************************************)
(* The bandit driven through its methods.                                  *)
(***************************************************************************)
\* a bandit constructed with no state file
BanditInit ==
    /\ arms = <<>>
    /\ file = NoFile
    /\ hist = <<>>
    /\ nObs = 0

\* update: the mutation of the arm, then _save_state
update(place_id, category, hour, reward, disk) ==
    LET a2 == update_arms(arms, place_id, category, hour, reward)
    IN  /\ arms' = a2
        /\ file' = written(file, disk, _save_state(a2))

\* driven directly, the bandit's writes succeed
Update ==
    \E place_id \in PlaceIds, category \in Categories, hour \in Hours,
       reward \in Rewards :
        /\ nObs < MaxObs
        /\ update(place_id, category, hour, reward, "ok")
        /\ Len(arms') <= MaxArms
        /\ hist' = Rewarded(Created(arms, arms', hist),
                            <<place_id, _get_context_bucket(hour, category)>>, reward)
        /\ nObs' = nObs + 1
        /\ UNCHANGED <<profileVars, requestVars, callVars>>

\* explain: its _get_arm is all it does to the state
explain(place_id, category, hour) ==
    arms' = _get_arm(arms, place_id, _get_context_bucket(hour, category))

Explain ==
    \E place_id \in PlaceIds, category \in Categories, hour \in Hours :
        /\ explain(place_id, category, hour)
        /\ Len(arms') <= MaxArms
        /\ hist' = Created(arms, arms', hist)
        /\ UNCHANGED <<file, nObs, profileVars, requestVars, callVars>>

PlaceIdLists == {<<>>, <<S_x>>, <<S_x, S_x_y>>, <<S_x, S_x>>}
CategoryLists == {<<>>, <<S_food>>, <<S_food, S_outdoor>>}

\* sample_scores: the arms its loop creates are all it does to the state
sample_scores(place_ids, categories, hour) ==
    arms' = sample_arms(arms, place_ids, categories, hour,
                        Min(Len(place_ids), Len(categories)))

Sample ==
    \E place_ids \in PlaceIdLists, categories \in CategoryLists, hour \in Hours :
        /\ sample_scores(place_ids, categories, hour)
        /\ Len(arms') <= MaxArms
        /\ hist' = Created(arms, arms', hist)
        /\ UNCHANGED <<file, nObs, profileVars, requestVars, callVars>>

\* get_all_stats reads the table and changes nothing
GetAllStats ==
    /\ all_stats(arms, Len(arms)) = all_stats(arms, Len(arms))
    /\ UNCHANGED vars


NextBandit == Update \/ Explain \/ Sample \/ GetAllStats

(***************************************************************************)
(* user_profile: the profile store.  A profile value is a float with three *)
(* decimals, held in thousandths.                                          *)
(***************************************************************************)
\* f'category_{category}'
ProfileKey(category) == <<"category_">> \o category

K_price_sensitivity == <<"price_sensitivity">>
K_adventure_level == <<"adventure_level">>

Profile(food, outdoor, entertainment, culture, price, adventure) ==
    (ProfileKey(S_food) :> food) @@ (ProfileKey(S_outdoor) :> outdoor)
    @@ (ProfileKey(S_entertainment) :> entertainment) @@ (ProfileKey(S_culture) :> culture)
    @@ (K_price_sensitivity :> price) @@ (K_adventure_level :> adventure)

NEUTRAL_PROFILE == Profile(500, 500, 500, 500, 500, 500)

\* the 'profile' entries of PERSONAS
PERSONAS ==
    (S_alex :> Profile(800, 200, 400, 300, 300, 300))
    @@ (S_jordan :> Profile(300, 900, 600, 100, 500, 800))
    @@ (S_sam :> Profile(400, 300, 500, 900, 600, 500))
    @@ (S_maya_okc :> Profile(900, 400, 700, 500, 400, 700))
    @@ (S_chris_dallas :> Profile(600, 200, 900, 400, 500, 900))

\* not user_id
Falsy(user_id) == user_id = PyNone \/ user_id = S_empty

\* mutant: an unknown user gets the first persona's profile
get_profile_first_persona(user_id) ==
    IF Falsy(user_id) \/ user_id \notin DOMAIN profiles
    THEN PERSONAS[S_alex]
    ELSE profiles[user_id]

get_profile(user_id) ==
    IF Falsy(user_id) \/ user_id \notin DOMAIN profiles
    THEN NEUTRAL_PROFILE
    ELSE profiles[user_id]

\* round(x, 3) of x = v * (1 - 0.1) + target * 0.1 when x lies halfway between
\* two thousandths (v = 10 j + 5): the double the product and sum evaluate to
\* lies just above or just below the midpoint, and round() follows the double.
\* The j for which IEEE-754 double arithmetic lands above, for target 0.0 ...
TieUp0 ==
    {0, 2, 3, 4, 5, 6, 7, 8, 9, 10, 11, 12, 13, 14, 15, 16, 17, 18, 19, 21,
     22, 24, 25, 26, 27, 28, 29, 30, 31, 32, 33, 35, 36, 37, 38, 39, 40,
     42, 43, 44, 45, 46, 49, 50, 51, 52, 53, 54, 55, 63, 64, 65, 66, 67,
     68, 76, 77, 78, 79, 80, 90, 91, 92, 93}

\* ... and for target 1.0
TieUp1 ==
    {0, 1, 2, 3, 4, 5, 6, 7, 8, 10, 11, 12, 13, 14, 15, 16, 17, 18, 19, 24,
     25, 26, 27, 28, 29, 30, 31, 32, 33, 37, 38, 39, 40, 41, 42, 43, 44,
     45, 46, 51, 52, 53, 54, 55, 65, 66, 67, 68, 79, 80, 93}

\* max(0.0, min(1.0, x))
clamp(x) == IF x < 0 THEN 0 ELSE IF x > 1000 THEN 1000 ELSE x

\* mutant: the smoothing weights are 0.9 and 1.0, and nothing clamps
ema_overshoot(v, reward) ==
    LET target == IF reward # 0 THEN 1000 ELSE 0
    IN  (9 * v) \div 10 + target

\* mutant: the target of a reward is 0.0 and the target of no reward 1.0
ema_inverted(v, reward) ==
    LET target == IF reward # 0 THEN 0 ELSE 1000
    IN  clamp((9 * v + target + 5) \div 10)

\* profile[key] after lines 189-193: the moving average, rounded to three
\* decimals and clamped
ema(v, reward) ==
    LET target == IF reward # 0 THEN 1000 ELSE 0
        n == 9 * v + target
        q == n \div 10
        r == n % 10
        up == IF reward # 0 THEN TieUp1 ELSE TieUp0
    IN  clamp(IF r < 5 THEN q
              ELSE IF r > 5 THEN q + 1
              ELSE IF (v \div 10) \in up THEN q + 1 ELSE q)

\* the table with a neutral profile for a user it does not know
materialized(P, user_id) ==
    IF user_id \in DOMAIN P THEN P ELSE (user_id :> NEUTRAL_PROFILE) @@ P

\* mutant: every category dimension of the profile is smoothed
update_profile_table_all(P, user_id, category, reward) ==
    IF Falsy(user_id) THEN P
    ELSE LET P1 == materialized(P, user_id)
             key == ProfileKey(category)
         IN  IF key \in DOMAIN P1[user_id]
             THEN [P1 EXCEPT ![user_id] =
                      [k \in DOMAIN @ |->
                          IF k \in {K_price_sensitivity, K_adventure_level}
                          THEN @[k] ELSE ema(@[k], reward)]]
             ELSE P1

\* _profiles after update_profile(user_id, category, reward)
update_profile_table(P, user_id, category, reward) ==
    IF Falsy(user_id) THEN P
    ELSE LET P1 == materialized(P, user_id)
             key == ProfileKey(category)
         IN  IF key \in DOMAIN P1[user_id]
             THEN [P1 EXCEPT ![user_id][key] = ema(@, reward)]
             ELSE P1

\* whether update_profile(user_id, category, ...) reaches _save_profiles
saves_profiles(P, user_id, category) ==
    /\ ~Falsy(user_id)
    /\ ProfileKey(category) \in DOMAIN materialized(P, user_id)[user_id]

update_profile(user_id, category, reward, disk) ==
    LET P2 == update_profile_table(profiles, user_id, category, reward)
    IN  /\ profiles' = P2
        /\ pfile' = IF saves_profiles(profiles, user_id, category)
                    THEN written(pfile, disk, Json(P2))
                    ELSE pfile

\* json.dump and json.load of the profile table: a JSON object whose keys are
\* quoted strings and whose numbers are the shortest decimal text of a float
DigitChars == <<"0", "1", "2", "3", "4", "5", "6", "7", "8", "9">>

json_string(s) == <<"\"">> \o s \o <<"\"">>

json_string_value(text) == SubSeq(text, 2, Len(text) - 1)

\* float.__repr__ of a value of thousandths: no trailing zeros, one digit at least
float_repr_two_places(v) ==
    LET f == v % 1000
        digits == IF (f \div 10) % 10 # 0 THEN <<f \div 100, (f \div 10) % 10>>
                  ELSE <<f \div 100>>
    IN  <<DigitChars[(v \div 1000) + 1], ".">>
            \o [i \in 1..Len(digits) |-> DigitChars[digits[i] + 1]]

float_repr(v) ==
    LET f == v % 1000
        digits == IF f % 10 # 0 THEN <<f \div 100, (f \div 10) % 10, f % 10>>
                  ELSE IF (f \div 10) % 10 # 0 THEN <<f \div 100, (f \div 10) % 10>>
                  ELSE <<f \div 100>>
    IN  <<DigitChars[(v \div 1000) + 1], ".">>
            \o [i \in 1..Len(digits) |-> DigitChars[digits[i] + 1]]

\* the float a decimal text is parsed to, in thousandths
json_float(text) ==
    LET digit(c) == CHOOSE d \in 0..9 : DigitChars[d + 1] = c
        place(i) == IF i = 3 THEN 100 ELSE IF i = 4 THEN 10 ELSE 1
        RECURSIVE fraction(_)
        fraction(i) == IF i > Len(text) THEN 0
                       ELSE digit(text[i]) * place(i) + fraction(i + 1)
    IN  digit(text[1]) * 1000 + fraction(3)

json_dump(P) ==
    [u \in {json_string(user_id) : user_id \in DOMAIN P} |->
        LET profile == P[json_string_value(u)]
        IN  [k \in {json_string(key) : key \in DOMAIN profile} |->
                float_repr(profile[json_string_value(k)])]]

json_load(doc) ==
    [user_id \in {json_string_value(u) : u \in DOMAIN doc} |->
        LET object == doc[json_string(user_id)]
        IN  [key \in {json_string_value(k) : k \in DOMAIN object} |->
                json_float(object[json_string(key)])]]

\* the text _save_profiles writes for table P, and the table _load_profiles
\* makes of a profile file
_save_profiles(P) == [kind |-> "json", data |-> json_dump(P)]

_load_profiles(f) == IF f.kind = "json" THEN json_load(f.data) ELSE PERSONAS

\* the module imported with no profile file: seeded from PERSONAS and saved
ProfileInit ==
    /\ profiles = PERSONAS
    /\ pfile = Json(PERSONAS)
    /\ nProf = 0
    /\ focus = <<S_alex, S_food>>

UserIds == {S_alex, S_newbie, S_empty, PyNone}
ProfileCategories == {S_food, S_outdoor, S_museum}

UpdateProfile ==
    \E user_id \in UserIds, category \in ProfileCategories, reward \in Rewards,
       disk \in DiskOutcomes :
        /\ nProf < MaxProfileUpdates
        /\ update_profile(user_id, category, reward, disk)
        /\ nProf' = nProf + 1
        /\ UNCHANGED <<banditVars, focus, requestVars, callVars>>

\* get_profile reads the table and changes nothing
GetProfile ==
    /\ \E user_id \in UserIds : get_profile(user_id) \in [DOMAIN NEUTRAL_PROFILE -> Int]
    /\ UNCHANGED vars

\* get_profile with the copy it returns recorded
GetProfileCall ==
    \E user_id \in UserIds :
        /\ ret' = [op |-> "get_profile", user_id |-> user_id, value |-> get_profile(user_id)]
        /\ UNCHANGED <<banditVars, profileVars, requestVars, model, nCalls, boot>>

NextProfile == UpdateProfile \/ GetProfile

NextProfileReads == UpdateProfile \/ GetProfileCall

\* a run of any length of updates to one dimension of one profile
FocusUsers == DOMAIN PERSONAS \cup {S_newbie}
FocusCategories == {S_food, S_outdoor, S_entertainment, S_culture}

ProfileLongInit ==
    /\ profiles = PERSONAS
    /\ pfile = Json(PERSONAS)
    /\ nProf = 0
    /\ focus \in FocusUsers \X FocusCategories

UpdateFocus ==
    \E reward \in Rewards :
        /\ update_profile(focus[1], focus[2], reward, "ok")
        /\ UNCHANGED <<banditVars, nProf, focus, requestVars, callVars>>

NextProfileLong == UpdateFocus

(***************************************************************************)
(* routes.feedback.  The handler is an async def that never awaits: the    *)
(* event loop runs it from its first line to its return before it starts   *)
(* another request, so a request is handled in one step, and requests that  *)
(* are in flight together are handled in any order.                         *)
(***************************************************************************)
\* a request body: the fields it has, and their values
Body(has, place_id, category, hour, event_type, userId) ==
    [has |-> has, place_id |-> place_id, category |-> category, hour |-> hour,
     event_type |-> event_type, userId |-> userId]

AllFields == {"place_id", "category", "hour", "event_type", "userId"}

\* data.get(field, default)
Get(data, field, default) == IF field \in data.has THEN data[field] ELSE default

\* mutant: a click counts as a reward of 0
REWARD_MAP_get_click_zero(event_type) ==
    IF event_type \in {"navigate", "like", "save"} THEN <<1>>
    ELSE IF event_type \in {"impression", "dismiss", "dislike", "click"} THEN <<0>>
    ELSE <<>>

\* mutant: a tag the map does not have counts as a reward of 0
REWARD_MAP_get_default_zero(event_type) ==
    IF event_type \in {"navigate", "like", "save"} THEN <<1>>
    ELSE IF event_type = "click" THEN <<>>
    ELSE <<0>>

\* REWARD_MAP.get(event_type): <<r>> for a reward r, <<>> for None
REWARD_MAP_get(event_type) ==
    IF event_type \in {"navigate", "like", "save"} THEN <<1>>
    ELSE IF event_type \in {"impression", "dismiss", "dislike"} THEN <<0>>
    ELSE <<>>

place_id_of(data) == Get(data, "place_id", PyNone)
category_of(data) == Get(data, "category", S_entertainment)
hour_of(data) == Get(data, "hour", 12)
\* mutant: an event without event_type is a click
event_type_of_default_click(data) == Get(data, "event_type", "click")

event_type_of(data) == Get(data, "event_type", "impression")
user_id_of(data) == Get(data, "userId", PyNone)
reward_of(data) == REWARD_MAP_get(event_type_of(data))

\* the arm a request addresses
arm_key_of(data) == <<place_id_of(data), _get_context_bucket(hour_of(data), category_of(data))>>

\* the arm table when bandit.update has returned (or was skipped)
feedback_updated(a, data) ==
    IF reward_of(data) # <<>>
    THEN update_arms(a, place_id_of(data), category_of(data), hour_of(data), reward_of(data)[1])
    ELSE a

\* mutant: the handler never calls update_profile
feedback_profiles_never(P, data) == P

\* the profile table when update_profile has returned (or was skipped)
feedback_profiles(P, data) ==
    IF reward_of(data) # <<>> /\ ~Falsy(user_id_of(data))
    THEN update_profile_table(P, user_id_of(data), category_of(data), reward_of(data)[1])
    ELSE P

\* the response of the handler, from the tables it leaves
feedback_response(a, P, data) ==
    [success |-> TRUE,
     event_type |-> event_type_of(data),
     reward |-> reward_of(data),
     stats |-> explain_result(a, place_id_of(data), category_of(data), hour_of(data)),
     updatedProfile |->
        IF Falsy(user_id_of(data)) THEN <<>>
        ELSE <<IF user_id_of(data) \in DOMAIN P THEN P[user_id_of(data)] ELSE NEUTRAL_PROFILE>>]

feedback(data, disk, pdisk) ==
    LET a1 == feedback_updated(arms, data)
        P1 == feedback_profiles(profiles, data)
        rewarded == reward_of(data) # <<>>
    IN  /\ arms' = _get_arm(a1, arm_key_of(data)[1], arm_key_of(data)[2])
        /\ file' = IF rewarded THEN written(file, disk, _save_state(a1)) ELSE file
        /\ profiles' = P1
        /\ pfile' = IF rewarded /\ saves_profiles(profiles, user_id_of(data), category_of(data))
                    THEN written(pfile, pdisk, Json(P1))
                    ELSE pfile
        /\ lastSave' = IF rewarded THEN disk ELSE lastSave

Requests ==
    {Body(AllFields, S_x, S_food, 8, e, S_alex) :
        e \in {"like", "dismiss", "impression", "click"}}
    \cup {Body(AllFields, S_x, S_food, 8, e, PyNone) :
        e \in {"save", "dislike", "click"}}
    \cup {Body(AllFields, S_x_y, S_food, 22, "click", S_newbie),
          Body(AllFields, S_x, S_food, 8, "bogus", S_alex),
          Body(AllFields \ {"event_type"}, S_x, S_food, 8, "impression", S_newbie),
          Body({"event_type"}, PyNone, S_entertainment, 12, "navigate", PyNone)}

InFlight == {r \in Requests : pending[r] > 0}

RECURSIVE Total(_, _)
Total(f, S) ==
    IF S = {} THEN 0
    ELSE LET r == CHOOSE r \in S : TRUE IN f[r] + Total(f, S \ {r})

RequestInit ==
    /\ pending = [r \in Requests |-> 0]
    /\ sent = [r \in Requests |-> 0]
    /\ lastSave = "none"

\* a client posts a feedback event
Submit ==
    \E data \in Requests :
        /\ Total(sent, Requests) < MaxRequests
        /\ pending' = [pending EXCEPT ![data] = @ + 1]
        /\ sent' = [sent EXCEPT ![data] = @ + 1]
        /\ UNCHANGED <<banditVars, profileVars, lastSave, callVars>>

\* the event loop runs the handler of one request in flight
Handle ==
    \E data \in InFlight, disk \in DiskOutcomes, pdisk \in DiskOutcomes :
        /\ feedback(data, disk, pdisk)
        /\ pending' = [pending EXCEPT ![data] = @ - 1]
        /\ UNCHANGED <<hist, nObs, nProf, focus, sent, callVars>>

NextFeedback == Submit \/ Handle

(***************************************************************************)
(* routes.recommend.  Scores are hundred-thousandths, those of the       *)
(* response ten-thousandths.  The trained model is                         *)
(* not part of the sources: the probability it gives a candidate is an     *)
(* input of the handler, as is each draw of numpy's Beta sampler.  The      *)
(* fields of a candidate, of the context and of the preferences that only   *)
(* feed the features of the trained model (rating, priceLevel, weather,     *)
(* ...) are read with .get and a default and are left out; pos is the       *)
(* candidate's index in the request, kept to tell equal candidates apart.   *)
(***************************************************************************)
Activity(has, id, category, pos) ==
    [has |-> has, id |-> id, category |-> category, pos |-> pos]

\* a.get('id', '') and a.get('category', 'entertainment')
act_id(a) == IF "id" \in a.has THEN a.id ELSE S_empty

act_category(a) == IF "category" \in a.has THEN a.category ELSE S_entertainment

\* the context of the request: the keys it has, and their values
Context(has, hour, dayOfWeek) == [has |-> has, hour |-> hour, dayOfWeek |-> dayOfWeek]

\* extract_features on the context recommend builds: 'hour' and 'day_of_week'
\* are always keys of it, None when the request had none, so the defaults of
\* context.get are not used, and 6 <= None and None / 6.0 raise TypeError
extract_features_raises(ctx) == "hour" \notin ctx.has \/ "dayOfWeek" \notin ctx.has

\* round(score, 4) of a score given in hundred-thousandths, in ten-thousandths.
\* A score whose fifth decimal is 5 is no input of the model: which way Python
\* rounds it depends on the binary float.
round4(score) ==
    LET q == score \div 10
        r == score % 10
    IN  IF r > 5 \/ (r = 5 /\ q % 2 = 1) THEN q + 1 ELSE q

\* mutant: the blend is made of the two scores as the response shows them
blend_of_rounded(lgbm_score, ts_score) ==
    LET x == 7 * round4(lgbm_score) + 3 * round4(ts_score)
        q == x \div 10
        r == x % 10
    IN  IF r > 5 \/ (r = 5 /\ q % 2 = 1) THEN q + 1 ELSE q

\* round(0.7 * lgbm_score + 0.3 * ts_score, 4): the scores are
\* hundred-thousandths, the result is ten-thousandths
blend(lgbm_score, ts_score) ==
    LET x == 7 * lgbm_score + 3 * ts_score
        q == x \div 100
        r == x % 100
    IN  IF r > 50 \/ (r = 50 /\ q % 2 = 1) THEN q + 1 ELSE q

\* thompson_scores: the dict sample_scores returns, each score with the arm it
\* was drawn from
thompson_scores_of(a, activities, hour, draws) ==
    LET place_ids == [i \in 1..Len(activities) |-> act_id(activities[i])]
        categories == [i \in 1..Len(activities) |-> act_category(activities[i])]
        scores == sample_dict(a, place_ids, categories, hour, Len(activities))
    IN  [aid \in DOMAIN draws |->
            [score |-> draws[aid], arm |-> DictGet(scores, aid).arm]]

\* the candidates with the three scores the loop of recommend gives them;
\* predicted, drawn and thompson_arm are not in the response: the two scores
\* before rounding and the arm the bandit score was drawn from
RECURSIVE blended(_, _, _, _)
blended(activities, oracle, thompson_scores, n) ==
    IF n = 0 THEN <<>>
    ELSE LET ts == thompson_scores[act_id(activities[n])]
         IN  Append(blended(activities, oracle, thompson_scores, n - 1),
                    [pos |-> activities[n].pos,
                     id |-> act_id(activities[n]),
                     predicted |-> oracle[n],
                     drawn |-> ts.score,
                     thompson_arm |-> ts.arm,
                     lgbm_score |-> round4(oracle[n]),
                     thompson_score |-> round4(ts.score),
                     ml_score |-> blend(oracle[n], ts.score)])

\* mutant: a candidate goes before the candidates of equal score
RECURSIVE insert_before_equal(_, _)
insert_before_equal(sorted, x) ==
    IF sorted = <<>> THEN <<x>>
    ELSE IF Head(sorted).ml_score > x.ml_score
         THEN <<Head(sorted)>> \o insert_before_equal(Tail(sorted), x)
         ELSE <<x>> \o sorted

\* list.sort(key=ml_score, reverse=True) is stable: a candidate goes after the
\* candidates sorted so far whose score is greater or equal
RECURSIVE insert(_, _)
insert(sorted, x) ==
    IF sorted = <<>> THEN <<x>>
    ELSE IF Head(sorted).ml_score >= x.ml_score
         THEN <<Head(sorted)>> \o insert(Tail(sorted), x)
         ELSE <<x>> \o sorted

RECURSIVE sort(_, _)
sort(scored, n) ==
    IF n = 0 THEN <<>> ELSE insert(sort(scored, n - 1), scored[n])

ids_of(activities) == [i \in 1..Len(activities) |-> act_id(activities[i])]

categories_of(activities) == [i \in 1..Len(activities) |-> act_category(activities[i])]

\* HTTPException(status_code=500, detail=str(e))
Http500(request, e) == [op |-> "recommend", request |-> request, status |-> 500, detail |-> e]

\* the request: activities, context and userId
ScoringRequest(activities, ctx, user_id) ==
    [activities |-> activities, context |-> ctx, userId |-> user_id]

recommend(activities, ctx, user_id, oracle, draws) ==
    LET request == ScoringRequest(activities, ctx, user_id)
    IN  IF activities = <<>>
        THEN /\ ret' = [op |-> "recommend", request |-> request, status |-> 200,
                        success |-> TRUE, recommendations |-> <<>>,
                        message |-> "No activities to score"]
             /\ arms' = arms
        ELSE IF model = "none"
        THEN ret' = Http500(request, "ValueError") /\ arms' = arms
        ELSE IF extract_features_raises(ctx)
        THEN ret' = Http500(request, "TypeError") /\ arms' = arms
        ELSE /\ arms' = sample_arms(arms, ids_of(activities), categories_of(activities),
                                    ctx.hour, Len(activities))
             /\ ret' = [op |-> "recommend", request |-> request, status |-> 200,
                        success |-> TRUE,
                        recommendations |->
                            sort(blended(activities, oracle,
                                         thompson_scores_of(arms, activities, ctx.hour, draws),
                                         Len(activities)),
                                 Len(activities)),
                        total_scored |-> Len(activities),
                        userId |-> user_id,
                        profileUsed |-> user_id # PyNone,
                        scoring |-> "lgbm+thompson"]

A_full == Activity({"id", "category"}, S_x, S_food, 1)
A_no_id == Activity({"category"}, S_empty, S_outdoor, 2)
A_bare == Activity({}, S_empty, S_entertainment, 3)
A_same == Activity({"id", "category"}, S_x, S_food, 2)

ActivityLists ==
    {<<>>, <<A_full>>, <<A_full, A_same>>, <<A_full, A_no_id>>, <<A_full, A_no_id, A_bare>>}

Contexts ==
    {Context({"hour", "dayOfWeek"}, 8, 2), Context({"dayOfWeek"}, 12, 2),
     Context({"hour"}, 22, 0), Context({}, 12, 0)}

\* scores in hundred-thousandths
OracleScores == {50000, 80000, 80006}

BanditScores == {20000, 90000}

Recommend ==
    \E activities \in ActivityLists, ctx \in Contexts, user_id \in {S_alex, PyNone} :
      \E oracle \in [1..Len(activities) -> OracleScores],
         draws \in [{act_id(activities[i]) : i \in 1..Len(activities)} -> BanditScores] :
        /\ nCalls < MaxCalls
        /\ recommend(activities, ctx, user_id, oracle, draws)
        /\ nCalls' = nCalls + 1
        /\ UNCHANGED <<file, hist, nObs, profileVars, requestVars, model, boot>>

NextRecommend == Recommend

(***************************************************************************)
(* The bandit constructed from a state file that was not written by        *)
(* _save_state, and then called.  json.load gives _load_state whatever the  *)
(* file holds; a value of the mapping is stored as the arm without a look   *)
(* at it.                                                                   *)
(***************************************************************************)
\* a file with valid JSON that is no mapping (a list, a number): data.items()
\* raises inside the try of _load_state
NotAMapping == [kind |-> "json_other", data |-> <<>>]

\* a value of the mapping that is no {alpha, beta} dict: the number 5
BadArm == [number |-> 5]

\* arm['alpha'] works on the arm
Subscriptable(arm) == DOMAIN arm = {"alpha", "beta"}

K_x_morning_food == ArmKeyString(<<S_x, _get_context_bucket(8, S_food)>>)

StartFiles ==
    {NoFile, Corrupt, NotAMapping,
     Json(<<[k |-> K_x_morning_food, v |-> [alpha |-> 2, beta |-> 1]]>>),
     Json(<<[k |-> K_x_morning_food, v |-> BadArm]>>),
     Json(<<[k |-> S_x, v |-> [alpha |-> 2, beta |-> 1]]>>)}

Returned(op) == [op |-> op, raised |-> "none"]

Raised(op, e) == [op |-> op, raised |-> e]

\* the TypeError of arm['alpha'] on the arm _get_arm returns
raises(place_id, category, hour) ==
    LET key == <<place_id, _get_context_bucket(hour, category)>>
    IN  DictHas(arms, key) /\ ~Subscriptable(DictGet(arms, key))

StartUpdate ==
    \E place_id \in {S_x}, category \in Categories, hour \in Hours, reward \in Rewards :
        /\ nCalls < MaxCalls
        /\ IF raises(place_id, category, hour)
           THEN ret' = Raised("update", "TypeError") /\ UNCHANGED <<arms, file>>
           ELSE ret' = Returned("update") /\ update(place_id, category, hour, reward, "ok")
        /\ nCalls' = nCalls + 1
        /\ UNCHANGED <<hist, nObs, profileVars, requestVars, model, boot>>

StartExplain ==
    \E place_id \in {S_x}, category \in Categories, hour \in Hours :
        /\ nCalls < MaxCalls
        /\ IF raises(place_id, category, hour)
           THEN ret' = Raised("explain", "TypeError") /\ UNCHANGED arms
           ELSE ret' = Returned("explain") /\ explain(place_id, category, hour)
        /\ nCalls' = nCalls + 1
        /\ UNCHANGED <<file, hist, nObs, profileVars, requestVars, model, boot>>

StartSample ==
    \E place_id \in {S_x}, category \in Categories, hour \in Hours :
        /\ nCalls < MaxCalls
        /\ IF raises(place_id, category, hour)
           THEN ret' = Raised("sample_scores", "TypeError") /\ UNCHANGED arms
           ELSE /\ ret' = Returned("sample_scores")
                /\ sample_scores(<<place_id>>, <<category>>, hour)
        /\ nCalls' = nCalls + 1
        /\ UNCHANGED <<file, hist, nObs, profileVars, requestVars, model, boot>>

NextStartup == StartUpdate \/ StartExplain \/ StartSample

(***************************************************************************)
(* Specifications.                                                         *)
(***************************************************************************)
\* no call recorded yet; load_model found the trained model
NoReturn == [op |-> "none"]

CallInit ==
    /\ model = "loaded"
    /\ ret = NoReturn
    /\ nCalls = 0
    /\ boot = NoFile

Init == BanditInit /\ ProfileInit /\ RequestInit /\ CallInit

InitLong == BanditInit /\ ProfileLongInit /\ RequestInit /\ CallInit

SpecBandit == Init /\ [][NextBandit]_vars

SpecProfile == Init /\ [][NextProfile]_vars

SpecProfileReads == Init /\ [][NextProfileReads]_vars

SpecProfileLong == InitLong /\ [][NextProfileLong]_vars

SpecFeedback == Init /\ [][NextFeedback]_vars

\* one place in one context, fed back on many times
UpdateLong ==
    \E reward \in Rewards :
        LET bucket == _get_context_bucket(8, S_food)
            arm == DictGet(_get_arm(arms, S_x, bucket), <<S_x, bucket>>)
        IN  /\ arm.alpha + arm.beta - 2 < MaxLongObs
            /\ update(S_x, S_food, 8, reward, "ok")
            /\ ret' = NoReturn
            /\ UNCHANGED <<hist, nObs, profileVars, requestVars, model, nCalls, boot>>

\* explain, with what it returns
ExplainCall ==
    \E category \in Categories :
        /\ explain(S_x, category, 8)
        /\ ret' = [op |-> "explain", place_id |-> S_x, category |-> category,
                   hour |-> 8, value |-> explain_result(arms, S_x, category, 8)]
        /\ UNCHANGED <<file, hist, nObs, profileVars, requestVars, model, nCalls, boot>>

NextExplainLong == UpdateLong \/ ExplainCall

SpecExplainLong == Init /\ [][NextExplainLong]_vars

(***************************************************************************)
(* The feature extractor: the time and weather features of one candidate.  *)
(* Feature values are tenths.                                              *)
(***************************************************************************)

\* time_appropriateness_score: the if/elif chain on the hour
period(hour) ==
    IF 6 <= hour /\ hour < 11 THEN 0
    ELSE IF 11 <= hour /\ hour < 17 THEN 1
    ELSE IF 17 <= hour /\ hour < 21 THEN 2
    ELSE 3

\* MATRIX.get(category, [0.5, 0.5, 0.5, 0.5])
MATRIX_get(category) ==
    IF category = S_food THEN <<6, 9, 10, 5>>
    ELSE IF category = S_outdoor THEN <<7, 10, 6, 1>>
    ELSE IF category = S_entertainment THEN <<3, 7, 10, 8>>
    ELSE IF category = S_culture THEN <<5, 10, 7, 1>>
    ELSE <<5, 5, 5, 5>>

time_appropriateness_score(category, hour) == MATRIX_get(category)[period(hour) + 1]

\* weather_scores.get(weather, 0.5)
weather_scores_get(weather) ==
    CASE weather = "clear" -> 10
      [] weather = "sunny" -> 10
      [] weather = "clouds" -> 7
      [] weather = "partly_cloudy" -> 8
      [] weather = "overcast" -> 5
      [] weather = "rain" -> 1
      [] weather = "drizzle" -> 2
      [] weather = "snow" -> 2
      [] weather = "thunderstorm" -> 0
      [] OTHER -> 5

\* mutant: the category is not looked at
weather_outdoor_score_any_category(category, weather) == weather_scores_get(weather)

weather_outdoor_score(category, weather) ==
    IF category # S_outdoor THEN 5 ELSE weather_scores_get(weather)

FeatureCategories == {S_food, S_outdoor, S_entertainment, S_culture, S_museum}
Weathers == {"clear", "sunny", "clouds", "partly_cloudy", "overcast", "rain",
             "drizzle", "snow", "thunderstorm", "fog"}

\* extract_features, for the features that depend on hour and weather
ExtractFeatures ==
    \E category \in FeatureCategories, hour \in 0..23, weather \in Weathers :
        /\ ret' = [op |-> "extract_features", category |-> category, hour |-> hour,
                   weather |-> weather, period |-> period(hour),
                   time_approp |-> time_appropriateness_score(category, hour),
                   weather_match |-> weather_outdoor_score(category, weather)]
        /\ UNCHANGED <<banditVars, profileVars, requestVars, model, nCalls, boot>>

SpecFeatures == Init /\ [][ExtractFeatures]_vars

\* load_model found the trained model, or printed that there is none
InitRecommend ==
    /\ BanditInit /\ ProfileInit /\ RequestInit
    /\ model \in {"loaded", "none"}
    /\ ret = NoReturn
    /\ nCalls = 0
    /\ boot = NoFile

SpecRecommend == InitRecommend /\ [][NextRecommend]_vars

\* the service started with a state file that holds an observed arm
InitScoring ==
    /\ boot = Json(<<[k |-> ArmKeyString(<<S_x, _get_context_bucket(8, S_food)>>),
                      v |-> [alpha |-> 2, beta |-> 1]]>>)
    /\ file = boot
    /\ arms = _load_state(boot)
    /\ hist = <<>>
    /\ nObs = 0
    /\ ProfileInit /\ RequestInit
    /\ model \in {"loaded", "none"}
    /\ ret = NoReturn
    /\ nCalls = 0

SpecScoring == InitScoring /\ [][NextRecommend]_vars

\* __init__ with some state file on disk: _load_state, which catches what it raises
InitStartup ==
    /\ boot \in StartFiles
    /\ file = boot
    /\ arms = _load_state(boot)
    /\ hist = <<>>
    /\ nObs = 0
    /\ ProfileInit /\ RequestInit
    /\ model = "loaded"
    /\ ret = Returned("__init__")
    /\ nCalls = 0

SpecStartup == InitStartup /\ [][NextStartup]_vars

(***************************************************************************)
(* Claims about the bandit.                                                *)
(***************************************************************************)
ArmOr11(a, key) == IF DictHas(a, key) THEN DictGet(a, key) ELSE NewArm

\* the time period of an hour as the specification's table gives it
PeriodOf(hour) ==
    IF hour \in 6..10 THEN "morning"
    ELSE IF hour \in 11..16 THEN "afternoon"
    ELSE IF hour \in 17..20 THEN "evening"
    ELSE "night"

C1Post(place_id, category, hour, reward) ==
    LET key == <<place_id, _get_context_bucket(hour, category)>>
        old == ArmOr11(arms, key)
    IN  /\ DictHas(arms', key)
        /\ reward = 1 => DictGet(arms', key) = [alpha |-> old.alpha + 1, beta |-> old.beta]
        /\ reward = 0 => DictGet(arms', key) = [alpha |-> old.alpha, beta |-> old.beta + 1]

\* C1: update(placeId, category, hour, reward) moves exactly one counter of the
\* arm (placeId, bucket(hour, category)) by +1, alpha for reward 1 and beta for
\* reward 0, the other counter keeps its value, and an arm that did not exist
\* counts from (1,1).
C1_UpdateMovesOneCounter ==
    [][\A place_id \in PlaceIds, category \in Categories, hour \in Hours, reward \in Rewards :
          (nObs' # nObs /\ update(place_id, category, hour, reward, "ok"))
              => C1Post(place_id, category, hour, reward)]_vars

\* an arm that took a reward of each kind, next to another arm
C1_Witness ==
    /\ Len(arms) = 2
    /\ \E key \in DOMAIN hist :
          /\ hist[key].ones = 1 /\ hist[key].zeros = 1
          /\ DictGet(arms, key) = [alpha |-> 2, beta |-> 2]

C2Post(place_id, category, hour) ==
    LET key == <<place_id, _get_context_bucket(hour, category)>>
    IN  /\ \A k \in DictKeys(arms) \ {key} : DictHas(arms', k) /\ DictGet(arms', k) = DictGet(arms, k)
        /\ DictKeys(arms') \subseteq DictKeys(arms) \cup {key}
        /\ \A p2 \in PlaceIds, c2 \in Categories, h2 \in Hours :
              (p2 # place_id \/ c2 # category \/ PeriodOf(h2) # PeriodOf(hour))
                  => explain_result(arms', p2, c2, h2) = explain_result(arms, p2, c2, h2)

\* C2: an update to one (place, bucket) arm leaves every other arm as it was;
\* for the same place and category, an update at an hour of another time
\* period does not change what explain reports for the first hour.
C2_UpdateLeavesOtherArms ==
    [][\A place_id \in PlaceIds, category \in Categories, hour \in Hours, reward \in Rewards :
          (nObs' # nObs /\ update(place_id, category, hour, reward, "ok"))
              => C2Post(place_id, category, hour)]_vars

\* the same place and category observed in the morning and, with a reward of 0,
\* at night
C2_Witness ==
    \E place_id \in PlaceIds, category \in Categories :
        LET m == <<place_id, _get_context_bucket(8, category)>>
            n == <<place_id, _get_context_bucket(22, category)>>
        IN  /\ m \in DOMAIN hist /\ n \in DOMAIN hist
            /\ hist[m].ones = 1 /\ hist[n].zeros = 1
            /\ explain_result(arms, place_id, category, 8).observations_in_context = 1

Entries(a) == {<<a[i].k, a[i].v>> : i \in 1..Len(a)}

\* C5: saving the arm table and loading it into a new bandit gives the same
\* (placeId, bucket) keys with the same alpha and beta.
C5_RoundTrip == Entries(_load_state(_save_state(arms))) = Entries(arms)

C6Inv ==
    \A i \in 1..Len(arms) :
        /\ arms[i].v.alpha \in Nat /\ arms[i].v.alpha >= 1
        /\ arms[i].v.beta \in Nat /\ arms[i].v.beta >= 1

C6Mono ==
    \A key \in DictKeys(arms) :
        /\ DictHas(arms', key)
        /\ DictGet(arms', key).alpha >= DictGet(arms, key).alpha
        /\ DictGet(arms', key).beta >= DictGet(arms, key).beta

\* C6: every arm has integer alpha >= 1 and beta >= 1, and no step of sample,
\* update, explain or get_all_stats lowers a counter or removes an arm.
C6_ArmsOnlyGrow == [](C6Inv) /\ [][C6Mono]_vars

\* two arms, each of them observed
C6_Witness ==
    /\ Len(arms) = 2
    /\ arms[1].v.alpha + arms[1].v.beta > 2
    /\ arms[2].v.alpha + arms[2].v.beta > 2

\* the arms created by this process that took k rewards of 1 and none of 0
OnlyLikes(place_id, category, hour, k) ==
    LET key == <<place_id, _get_context_bucket(hour, category)>>
    IN  key \in DOMAIN hist /\ hist[key].ones = k /\ hist[key].zeros = 0

\* C7 as stated: after k updates with reward 1 and none with reward 0 on a
\* new arm, explain reports observations k and a mean equal to (k+1)/(k+2).
C7_MeanIsExact ==
    \A place_id \in PlaceIds, category \in Categories, hour \in Hours, k \in 0..MaxObs :
        OnlyLikes(place_id, category, hour, k) =>
            LET e == explain_result(arms, place_id, category, hour)
            IN  /\ e.observations_in_context = k
                /\ e.expected_quality * (k + 2) = 1000 * (k + 1)

\* C7 amended: the arm is (k+1, 1), explain reports observations k and the
\* mean (k+1)/(k+2) rounded to three decimals.
C7_MeanIsRounded ==
    \A place_id \in PlaceIds, category \in Categories, hour \in Hours, k \in 0..MaxObs :
        OnlyLikes(place_id, category, hour, k) =>
            LET e == explain_result(arms, place_id, category, hour)
                key == <<place_id, _get_context_bucket(hour, category)>>
            IN  /\ DictGet(arms, key) = [alpha |-> k + 1, beta |-> 1]
                /\ e.observations_in_context = k
                /\ e.expected_quality = Round3(k + 1, k + 2)
                /\ e.explanation.likes = k /\ e.explanation.skips = 0

\* a new arm after two rewards of 1: (3, 1), reported as 0.75
C7_Witness ==
    \E place_id \in PlaceIds, category \in Categories, hour \in Hours :
        /\ OnlyLikes(place_id, category, hour, 2)
        /\ explain_result(arms, place_id, category, hour).expected_quality = 750

(***************************************************************************)
(* Claims about the profile store.                                         *)
(***************************************************************************)
\* the profile update_profile works on: the stored one, or a neutral one
ProfileOr500(P, user_id) == IF user_id \in DOMAIN P THEN P[user_id] ELSE NEUTRAL_PROFILE

Target(reward) == IF reward = 1 THEN 1000 ELSE 0

Touches(user_id, category) ==
    ~Falsy(user_id) /\ ProfileKey(category) \in DOMAIN NEUTRAL_PROFILE

\* C8 as stated: the touched dimension becomes old*0.9 + target*0.1, target
\* 1.0 for reward 1 and 0.0 for reward 0.
C8_EmaIsExact ==
    [][\A user_id \in UserIds, category \in ProfileCategories, reward \in Rewards,
         disk \in DiskOutcomes :
          (/\ nProf' # nProf
           /\ Touches(user_id, category)
           /\ update_profile(user_id, category, reward, disk))
              => 10 * profiles'[user_id][ProfileKey(category)]
                    = 9 * ProfileOr500(profiles, user_id)[ProfileKey(category)] + Target(reward)]_vars

\* C8 amended: the touched dimension becomes old*0.9 + target*0.1 rounded to
\* three decimals (at most half a thousandth away), target 1.0 for reward 1
\* and 0.0 for reward 0; from 0.5 that is 0.55 and 0.45.
C8_EmaIsRounded ==
    [][\A user_id \in UserIds, category \in ProfileCategories, reward \in Rewards,
         disk \in DiskOutcomes :
          (/\ nProf' # nProf
           /\ Touches(user_id, category)
           /\ update_profile(user_id, category, reward, disk))
              => LET old == ProfileOr500(profiles, user_id)[ProfileKey(category)]
                     new == profiles'[user_id][ProfileKey(category)]
                     d == 10 * new - (9 * old + Target(reward))
                 IN  /\ -5 <= d /\ d <= 5
                     /\ (old = 500 /\ reward = 1) => new = 550
                     /\ (old = 500 /\ reward = 0) => new = 450]_vars

\* a new user after one reward of 1 on food and one reward of 0 on outdoor
C8_Witness ==
    /\ S_newbie \in DOMAIN profiles
    /\ profiles[S_newbie][ProfileKey(S_food)] = 550
    /\ profiles[S_newbie][ProfileKey(S_outdoor)] = 450

\* C9: after any sequence of update_profile calls every dimension of every
\* stored profile lies in [0, 1].
C9_ProfilesInUnitInterval ==
    \A user_id \in DOMAIN profiles : \A k \in DOMAIN profiles[user_id] :
        0 <= profiles[user_id][k] /\ profiles[user_id][k] <= 1000

\* a new user's dimension driven from 0.5 up to where the rounded average
\* stops moving
C9_Witness ==
    /\ focus = <<S_newbie, S_food>>
    /\ S_newbie \in DOMAIN profiles
    /\ profiles[S_newbie][ProfileKey(S_food)] >= 995
    /\ ema(profiles[S_newbie][ProfileKey(S_food)], 1) = profiles[S_newbie][ProfileKey(S_food)]

\* C10: update_profile(userId, category, reward) changes at most the dimension
\* category_<category> of that user's profile; its other five dimensions and
\* every other user's profile keep their values.
C10_UpdateTouchesOneDimension ==
    [][\A user_id \in UserIds, category \in ProfileCategories, reward \in Rewards :
          (/\ nProf' # nProf
           /\ profiles' = update_profile_table(profiles, user_id, category, reward))
              => /\ \A u \in DOMAIN profiles' \ {user_id} :
                        u \in DOMAIN profiles /\ profiles'[u] = profiles[u]
                 /\ user_id \in DOMAIN profiles' =>
                        \A k \in DOMAIN NEUTRAL_PROFILE \ {ProfileKey(category)} :
                            profiles'[user_id][k] = ProfileOr500(profiles, user_id)[k]]_vars

\* updates have moved one dimension of a seeded profile and one of a new
\* user's, next to dimensions and profiles that were not addressed
C10_Witness ==
    /\ profiles[S_alex][ProfileKey(S_food)] # PERSONAS[S_alex][ProfileKey(S_food)]
    /\ profiles[S_alex][ProfileKey(S_outdoor)] = PERSONAS[S_alex][ProfileKey(S_outdoor)]
    /\ S_newbie \in DOMAIN profiles
    /\ profiles[S_newbie][ProfileKey(S_outdoor)] # 500
    /\ profiles[S_newbie][K_price_sensitivity] = 500
    /\ profiles[S_jordan] = PERSONAS[S_jordan]

\* C11: get_profile for an absent or unknown user id returns the profile with
\* all six dimensions 0.5, and a get_profile call changes neither the profile
\* table in memory nor the profile file.
C11_GetProfileNeutralNoWrite ==
    [][nProf' = nProf =>
          /\ profiles' = profiles
          /\ pfile' = pfile
          /\ (/\ ret'.op = "get_profile"
              /\ (Falsy(ret'.user_id) \/ ret'.user_id \notin DOMAIN profiles))
                => ret'.value = Profile(500, 500, 500, 500, 500, 500)]_vars

\* a user the table does not know was looked up after updates to other users
C11_Witness ==
    /\ ret.op = "get_profile"
    /\ ret.user_id = S_newbie
    /\ S_newbie \notin DOMAIN profiles
    /\ profiles # PERSONAS
    /\ pfile = Json(profiles)
    /\ \A k \in DOMAIN ret.value : ret.value[k] = 500

\* C20: after an update_profile call whose write succeeds, the profile file
\* equals the profile table in memory: every profile the call created or
\* changed is in the file with the same values.
C20_FileEqualsMemory ==
    [][\A user_id \in UserIds, category \in ProfileCategories, reward \in Rewards :
          (/\ nProf' # nProf
           /\ update_profile(user_id, category, reward, "ok")
           /\ profiles' # profiles)
              => pfile' = Json(profiles')]_vars

(***************************************************************************)
(* Claims about the feedback handler.                                      *)
(***************************************************************************)
\* the step in which the handler of request data runs
Handled(data) ==
    /\ pending[data] > 0
    /\ pending' = [pending EXCEPT ![data] = @ - 1]
    /\ \E disk \in DiskOutcomes, pdisk \in DiskOutcomes : feedback(data, disk, pdisk)

\* C3: a click, with or without a userId, leaves the arm table (its keys and
\* every alpha and beta) and the profile table as they were.
C3_ClickMutatesNothing ==
    [][\A data \in Requests :
          (Handled(data) /\ event_type_of(data) = "click")
              => arms' = arms /\ profiles' = profiles]_vars

RewardBearing(key) == {r \in Requests : reward_of(r) # <<>> /\ arm_key_of(r) = key}

Observations(arm) == arm.alpha + arm.beta - 2

\* C4: no increment is lost.  An arm's observations are the reward-bearing
\* requests received for it less those still in flight, so with none in
\* flight the arm has counted every one of the N requests, in memory and in
\* the table the last _save_state wrote.
C4_NoLostIncrement ==
    \A key \in {arm_key_of(r) : r \in Requests} :
        LET n == Total(sent, RewardBearing(key)) - Total(pending, RewardBearing(key))
        IN  /\ Observations(ArmOr11(arms, key)) = n
            /\ (n > 0 /\ lastSave = "ok") =>
                  /\ file.kind = "json"
                  /\ DictHas(file.data, ArmKeyString(key))
                  /\ Observations(DictGet(file.data, ArmKeyString(key))) = n

\* two reward-1 requests for one arm were in flight, both are handled and the
\* last write succeeded
C4_Witness ==
    /\ \A r \in Requests : pending[r] = 0
    /\ Total(sent, RewardBearing(<<S_x, _get_context_bucket(8, S_food)>>)) = 2
    /\ lastSave = "ok"
    /\ DictGet(arms, <<S_x, _get_context_bucket(8, S_food)>>).alpha = 3

\* the request whose handler runs in this step, when the step is one
Served(data) == pending[data] > 0 /\ pending' = [pending EXCEPT ![data] = @ - 1]

Positive == {"navigate", "like", "save"}

Negative == {"impression", "dismiss", "dislike"}

\* the addressed arm took one reward of 1, resp. of 0
GainsAlpha(data) ==
    ArmOr11(arms', arm_key_of(data))
        = [ArmOr11(arms, arm_key_of(data)) EXCEPT !.alpha = @ + 1]

GainsBeta(data) ==
    ArmOr11(arms', arm_key_of(data))
        = [ArmOr11(arms, arm_key_of(data)) EXCEPT !.beta = @ + 1]

\* nothing was learned: no counter moved, no profile changed, nothing written
Ignored(data) ==
    /\ \A key \in DictKeys(arms') : DictGet(arms', key) = ArmOr11(arms, key)
    /\ profiles' = profiles
    /\ file' = file
    /\ pfile' = pfile

\* C12: navigate, like and save give reward 1; impression, dismiss and dislike
\* give reward 0; click is ignored (no bandit update, no profile update), and
\* the response tells ignore (reward null) from reward 0.
C12_EventOutcomes ==
    [][\A data \in Requests :
          (Served(data) /\ "event_type" \in data.has) =>
              LET e == data.event_type
                  reward == feedback_response(arms', profiles', data).reward
              IN  /\ e \in Positive => reward = <<1>> /\ GainsAlpha(data)
                  /\ e \in Negative => reward = <<0>> /\ GainsBeta(data)
                  /\ e = "click" => reward = <<>> /\ reward # <<0>> /\ Ignored(data)]_vars

\* a like and then a click of the same user on the same place were handled:
\* the like counted, the click did not
C12_Witness ==
    /\ \A r \in Requests : pending[r] = 0
    /\ sent[Body(AllFields, S_x, S_food, 8, "like", S_alex)] = 1
    /\ sent[Body(AllFields, S_x, S_food, 8, "click", S_alex)] = 1
    /\ DictGet(arms, <<S_x, _get_context_bucket(8, S_food)>>) = [alpha |-> 2, beta |-> 1]
    /\ profiles[S_alex][ProfileKey(S_food)] = 820

\* C13 as stated: a tag that is present and is not one of the seven recognized
\* tags is treated as reward 0: the beta of the addressed arm goes up by 1.
C13_UnknownTagIsRewardZero ==
    [][\A data \in Requests :
          (/\ Served(data)
           /\ "event_type" \in data.has
           /\ data.event_type \notin Positive \cup Negative \cup {"click"})
              => GainsBeta(data)]_vars

\* C13 amended: a tag that is present and is not one of the seven recognized
\* tags gives no reward (null), like a click: no counter moves and no profile
\* changes.  Only an event with no tag at all counts as an impression, reward
\* 0, and raises the beta of the addressed arm by 1.
C13_UnknownTagIsIgnored ==
    [][\A data \in Requests :
          Served(data) =>
              LET reward == feedback_response(arms', profiles', data).reward
              IN  /\ (/\ "event_type" \in data.has
                      /\ data.event_type \notin Positive \cup Negative \cup {"click"})
                        => reward = <<>> /\ Ignored(data)
                  /\ "event_type" \notin data.has
                        => reward = <<0>> /\ GainsBeta(data)]_vars

\* an event with an unknown tag and an event with no tag were handled for the
\* same arm: only the second counted
C13_Witness ==
    /\ \A r \in Requests : pending[r] = 0
    /\ sent[Body(AllFields, S_x, S_food, 8, "bogus", S_alex)] = 1
    /\ sent[Body(AllFields \ {"event_type"}, S_x, S_food, 8, "impression", S_newbie)] = 1
    /\ DictGet(arms, <<S_x, _get_context_bucket(8, S_food)>>) = [alpha |-> 1, beta |-> 2]
    /\ profiles[S_alex] = PERSONAS[S_alex]

\* the profile update of the event's user: the category dimension moved to the
\* rounded average, the profile created neutral when the user is new
ProfileUpdated(data, reward) ==
    LET user_id == user_id_of(data)
        key == ProfileKey(category_of(data))
        d == 10 * profiles'[user_id][key]
                - (9 * ProfileOr500(profiles, user_id)[key] + Target(reward))
    IN  /\ user_id \in DOMAIN profiles'
        /\ key \in DOMAIN NEUTRAL_PROFILE => -5 <= d /\ d <= 5

RewardOf(data) ==
    IF "event_type" \in data.has /\ data.event_type \in Positive THEN 1 ELSE 0

Rewarding(data) ==
    "event_type" \in data.has => data.event_type \in Positive \cup Negative

GainsOne(data) ==
    IF RewardOf(data) = 1 THEN GainsAlpha(data) ELSE GainsBeta(data)

\* C19 as stated: every feedback event that yields a reward updates both the
\* arm and the user profile: the arm gains one observation and the profile
\* update is applied with the event's category and reward.
C19_RewardUpdatesBoth ==
    [][\A data \in Requests :
          (Served(data) /\ Rewarding(data))
              => GainsOne(data) /\ ProfileUpdated(data, RewardOf(data))]_vars

\* C19 amended: every feedback event that yields a reward gains the addressed
\* arm one observation; when the event carries a non-empty userId the profile
\* update of that user is applied with the event's category and reward, and
\* when it carries none the profile table is left as it was.
C19_RewardUpdatesArmAndKnownUser ==
    [][\A data \in Requests :
          (Served(data) /\ Rewarding(data))
              => /\ GainsOne(data)
                 /\ IF Falsy(user_id_of(data))
                    THEN profiles' = profiles /\ pfile' = pfile
                    ELSE ProfileUpdated(data, RewardOf(data))]_vars

\* a like with a userId and a save without one were handled for the same arm:
\* both counted for the arm, one moved a profile
C19_Witness ==
    /\ \A r \in Requests : pending[r] = 0
    /\ sent[Body(AllFields, S_x, S_food, 8, "like", S_alex)] = 1
    /\ sent[Body(AllFields, S_x, S_food, 8, "save", PyNone)] = 1
    /\ DictGet(arms, <<S_x, _get_context_bucket(8, S_food)>>) = [alpha |-> 3, beta |-> 1]
    /\ profiles[S_alex][ProfileKey(S_food)] = 820
    /\ DOMAIN profiles = DOMAIN PERSONAS

Failed == {"untouched", "truncated"}

\* C18: when the write of the bandit state and the write of the profiles fail
\* during a feedback update, the handler still returns its response, the arm's
\* counter and the profile dimension hold the updated values, and the reads
\* the handler makes afterwards (explain, get_profile) return them.
C18_FailedWriteKeepsMemory ==
    [][\A data \in Requests, disk \in Failed, pdisk \in Failed :
          (Served(data) /\ Rewarding(data) /\ feedback(data, disk, pdisk))
              => LET resp == feedback_response(arms', profiles', data)
                     arm == ArmOr11(arms', arm_key_of(data))
                 IN  /\ GainsOne(data)
                     /\ resp.success
                     /\ resp.stats.observations_in_context
                            = Observations(ArmOr11(arms, arm_key_of(data))) + 1
                     /\ resp.stats.explanation.likes = arm.alpha - 1
                     /\ resp.stats.explanation.skips = arm.beta - 1
                     /\ ~Falsy(user_id_of(data)) =>
                            /\ ProfileUpdated(data, RewardOf(data))
                            /\ resp.updatedProfile = <<profiles'[user_id_of(data)]>>
                            /\ get_profile(user_id_of(data))' = profiles'[user_id_of(data)]]_vars

\* a like was handled while neither file could be written: memory has the
\* update, the files do not
C18_Witness ==
    /\ \A r \in Requests : pending[r] = 0
    /\ sent[Body(AllFields, S_x, S_food, 8, "like", S_alex)] = 1
    /\ lastSave \in Failed
    /\ DictGet(arms, <<S_x, _get_context_bucket(8, S_food)>>).alpha = 2
    /\ file # _save_state(arms)
    /\ profiles[S_alex][ProfileKey(S_food)] = 820
    /\ pfile # Json(profiles)

(***************************************************************************)
(* Claims about the scoring entry point.                                   *)
(***************************************************************************)
Scored == ret.op = "recommend" /\ ret.status = 200

\* C14: the scoring entry point returns the candidates in descending order of
\* blended score, and candidates of equal blended score in the order they had
\* in the request.
C14_DescendingAndStable ==
    Scored =>
        LET recs == ret.recommendations
            acts == ret.request.activities
        IN  /\ Len(recs) = Len(acts)
            /\ {recs[i].pos : i \in 1..Len(recs)} = {acts[i].pos : i \in 1..Len(acts)}
            /\ \A i \in 1..Len(recs) : \A j \in (i + 1)..Len(recs) :
                  /\ recs[i].ml_score >= recs[j].ml_score
                  /\ recs[i].ml_score = recs[j].ml_score => recs[i].pos < recs[j].pos

\* three candidates came back reordered, the first two of them with equal
\* blended scores made of different parts
C14_Witness ==
    /\ Scored
    /\ Len(ret.recommendations) = 3
    /\ ret.recommendations[1].ml_score = ret.recommendations[2].ml_score
    /\ ret.recommendations[1].lgbm_score # ret.recommendations[2].lgbm_score
    /\ ret.recommendations[1].pos < ret.recommendations[2].pos
    /\ ret.recommendations[2].pos > ret.recommendations[3].pos

\* C15: with no model loaded a scoring request with candidates and a complete
\* context still succeeds: each blended score is the bandit score alone and
\* the response carries a degraded-mode flag.
C15_DegradesToBanditScore ==
    (/\ ret.op = "recommend"
     /\ model = "none"
     /\ ret.request.activities # <<>>
     /\ ~extract_features_raises(ret.request.context))
        => /\ ret.status = 200
           /\ "degraded" \in DOMAIN ret
           /\ \A i \in 1..Len(ret.recommendations) :
                 ret.recommendations[i].ml_score = ret.recommendations[i].thompson_score

\* C16: with the model loaded, a scoring request in which fields of the
\* candidates or of the context (hour, dayOfWeek) are absent completes with a
\* ranked result.
C16_AbsentFieldsNeverRaise ==
    (ret.op = "recommend" /\ model = "loaded")
        => /\ ret.status = 200
           /\ Len(ret.recommendations) = Len(ret.request.activities)

(***************************************************************************)
(* Claims about the startup of the bandit.                                 *)
(***************************************************************************)
\* the file is a mapping from "<placeId>|<bucket>" to {alpha, beta}
ExpectedShape(f) ==
    /\ f.kind = "json"
    /\ \A i \in 1..Len(f.data) :
          Len(split1(f.data[i].k)) = 2 /\ DOMAIN f.data[i].v = {"alpha", "beta"}

\* C17: a bandit constructed while its state file is missing or unreadable
\* (not valid JSON, or not a mapping of the expected shape) starts with an
\* empty arm table, and neither the constructor nor any later sample, update
\* or explain raises.
C17_UnreadableFileStartsFresh ==
    ~ExpectedShape(boot) =>
        /\ ret.raised = "none"
        /\ nCalls = 0 => arms = <<>>

(***************************************************************************)
(* Claims about sampling, explanations and persistence of the bandit       *)
(***************************************************************************)

\* C21: sample_scores(place_ids, categories, hour) returns a score for every
\* place id of place_ids, the score of the i-th place being drawn from the arm
\* (place_ids[i], bucket(hour, categories[i])), whatever the lengths of the two
\* lists, and leaves alpha and beta of every existing arm as they were.
C21_SampleScoresEveryPlace ==
    \A place_ids \in PlaceIdLists, categories \in CategoryLists, hour \in Hours :
        LET n == Min(Len(place_ids), Len(categories))
            scores == sample_dict(arms, place_ids, categories, hour, n)
            after == sample_arms(arms, place_ids, categories, hour, n)
        IN  /\ \A i \in 1..Len(place_ids) :
                  /\ DictHas(scores, place_ids[i])
                  /\ i <= Len(categories) =>
                        DictGet(scores, place_ids[i]).arm =
                            <<place_ids[i], _get_context_bucket(hour, categories[i])>>
            /\ \A key \in DictKeys(arms) :
                  DictHas(after, key) /\ DictGet(after, key) = DictGet(arms, key)

\* C22: for every profile table reachable by update_profile calls, the table
\* _load_profiles reads from what _save_profiles wrote has the same user ids
\* and, for every user, the same six values.
C22_ProfilesRoundTrip ==
    LET loaded == _load_profiles(_save_profiles(profiles))
    IN  /\ DOMAIN loaded = DOMAIN profiles
        /\ \A user_id \in DOMAIN profiles :
              /\ DOMAIN loaded[user_id] = DOMAIN profiles[user_id]
              /\ \A key \in DOMAIN profiles[user_id] :
                    loaded[user_id][key] = profiles[user_id][key]

\* a table with a user added by update_profile, a value of three decimals and
\* a value of one
C22_Witness ==
    /\ S_newbie \in DOMAIN profiles
    /\ Cardinality(DOMAIN profiles) = 6
    /\ \E user_id \in DOMAIN profiles, key \in DOMAIN NEUTRAL_PROFILE :
          profiles[user_id][key] % 10 # 0
    /\ _save_profiles(profiles).data[json_string(S_alex)][json_string(K_price_sensitivity)]
          = <<"0", ".", "3">>

\* C23: explain reports alpha + beta - 2 of the arm as its observations, and
\* the uncertainty 'high' below 5 observations, 'medium' from 5 to 19 and
\* 'low' from 20 on.
C23_ExplainTiers ==
    ret.op = "explain" =>
        LET arm == DictGet(arms, <<ret.place_id,
                                   _get_context_bucket(ret.hour, ret.category)>>)
            obs == arm.alpha + arm.beta - 2
        IN  /\ ret.value.observations_in_context = obs
            /\ obs < 5 => ret.value.uncertainty = "high"
            /\ (5 <= obs /\ obs < 20) => ret.value.uncertainty = "medium"
            /\ obs >= 20 => ret.value.uncertainty = "low"

\* explain of an arm that has exactly 20 observations
C23_Witness ==
    /\ ret.op = "explain"
    /\ ret.value.observations_in_context = 20
    /\ ret.value.uncertainty = "low"

(***************************************************************************)
(* Claims about the time period and the weather feature                    *)
(***************************************************************************)

\* C24: every hour 0..23 is in exactly one period (6..10 morning, 11..16
\* afternoon, 17..20 evening, 21..23 and 0..5 night), the bandit's bucket is
\* that period with the category, and the time-appropriateness lookup of the
\* feature extractor uses the same period for the hour.
C24_SamePeriod ==
    ret.op = "extract_features" =>
        LET name == <<"morning", "afternoon", "evening", "night">>[ret.period + 1]
        IN  /\ name = PeriodOf(ret.hour)
            /\ time_bucket(ret.hour) = <<name>>
            /\ _get_context_bucket(ret.hour, ret.category)
                  = <<PeriodOf(ret.hour), "_">> \o ret.category
            /\ ret.time_approp = MATRIX_get(ret.category)[ret.period + 1]

\* the first hour of the night, looked up for a known category
C24_Witness ==
    /\ ret.op = "extract_features"
    /\ ret.hour = 21 /\ ret.period = 3
    /\ ret.category = S_outdoor /\ ret.time_approp = 1

\* the weather table of the specification, in tenths
WeatherTable(rain) ==
    [clear |-> 10, sunny |-> 10, clouds |-> 7, partly_cloudy |-> 8, overcast |-> 5,
     drizzle |-> 2, rain |-> rain, snow |-> 2, thunderstorm |-> 0]

WeatherMatches(table) ==
    ret.op = "extract_features" =>
        ret.weather_match =
            IF ret.category # S_outdoor THEN 5
            ELSE IF ret.weather \in DOMAIN table THEN table[ret.weather]
            ELSE 5

\* C25 as stated: weatherOutdoorMatch is 0.5 for every category but outdoor;
\* for outdoor it is 1.0 for clear and sunny, 0.7 clouds, 0.8 partly_cloudy,
\* 0.5 overcast, 0.2 for drizzle, rain and snow, 0.0 thunderstorm and 0.5 for
\* any other weather.
C25_WeatherTableAsStated == WeatherMatches(WeatherTable(2))

\* C25: weatherOutdoorMatch is 0.5 for every category but outdoor; for outdoor
\* it is 1.0 for clear and sunny, 0.7 clouds, 0.8 partly_cloudy, 0.5 overcast,
\* 0.2 for drizzle and snow, 0.1 for rain, 0.0 thunderstorm and 0.5 for any
\* other weather.
C25_WeatherTable == WeatherMatches(WeatherTable(1))

\* an outdoor place in the rain
C25_Witness ==
    /\ ret.op = "extract_features"
    /\ ret.category = S_outdoor /\ ret.weather = "rain"
    /\ ret.weather_match = 1

(***************************************************************************)
(* Claims about the scores of a scoring request                            *)
(***************************************************************************)

\* C26: the blended score of a candidate is 0.7 * oracleScore + 0.3 *
\* banditScore rounded to 4 decimals, where the two scores are the unrounded
\* ones; for 0.8 and 0.2 it is 0.62.
C26_BlendOfUnrounded ==
    Scored =>
        \A i \in 1..Len(ret.recommendations) :
            LET r == ret.recommendations[i]
                exact == 7 * r.predicted + 3 * r.drawn
            IN  /\ 100 * r.ml_score - exact <= 50
                /\ exact - 100 * r.ml_score <= 50
                /\ (r.predicted = 80000 /\ r.drawn = 20000) => r.ml_score = 6200

\* the two candidates 0.8 with 0.2 and 0.80006 with 0.2: the response shows the
\* second oracle score as 0.8001, the blend of both is 0.62
C26_Witness ==
    /\ Scored
    /\ Len(ret.recommendations) = 2
    /\ \E i, j \in 1..2 :
          /\ ret.recommendations[i].predicted = 80000
          /\ ret.recommendations[i].drawn = 20000
          /\ ret.recommendations[i].ml_score = 6200
          /\ ret.recommendations[j].predicted = 80006
          /\ ret.recommendations[j].lgbm_score = 8001
          /\ ret.recommendations[j].ml_score = 6200

\* C27: the bandit score attached to each candidate of a scoring request is
\* the sample drawn from that candidate's own arm: its id with the bucket of
\* the request's hour and its own category, also when two candidates share an
\* id (or have none) and differ in category.
C27_ScoreOfOwnArm ==
    Scored =>
        \A i \in 1..Len(ret.recommendations) :
            LET r == ret.recommendations[i]
                candidate == ret.request.activities[r.pos]
            IN  r.thompson_arm =
                    <<act_id(candidate),
                      _get_context_bucket(ret.request.context.hour, act_category(candidate))>>

(***************************************************************************)
(* Claims about the persisted arm table, the frame of a scoring request    *)
(* and feedback without an event type                                      *)
(***************************************************************************)

\* C28: between operations, when writes succeed, a bandit restarted from the
\* file reports for every (placeId, category, hour) the same observations and
\* the same mean in explain as the running one, and the arms of the running
\* bandit that the restarted one lacks are unobserved (1,1) arms.
C28_RestartReportsSame ==
    LET restarted == _load_state(file)
    IN  /\ \A place_id \in PlaceIds, category \in Categories, hour \in Hours :
              LET now == explain_result(arms, place_id, category, hour)
                  then == explain_result(restarted, place_id, category, hour)
              IN  /\ then.observations_in_context = now.observations_in_context
                  /\ then.expected_quality = now.expected_quality
        /\ \A key \in DictKeys(arms) :
              ~DictHas(restarted, key) => DictGet(arms, key) = NewArm

\* C29: a scoring request changes no alpha or beta of an arm that exists, adds
\* arms at (1,1) only, and changes no user profile; the list it returns holds
\* each candidate of the request exactly once.
C29_ScoringFrame ==
    [][nCalls' # nCalls =>
        /\ \A key \in DictKeys(arms) :
              DictHas(arms', key) /\ DictGet(arms', key) = DictGet(arms, key)
        /\ \A key \in DictKeys(arms') \ DictKeys(arms) : DictGet(arms', key) = NewArm
        /\ profiles' = profiles
        /\ pfile' = pfile
        /\ ret'.status = 200 =>
              LET recs == ret'.recommendations
                  acts == ret'.request.activities
              IN  /\ Len(recs) = Len(acts)
                  /\ \A p \in 1..Len(acts) :
                        \E i \in 1..Len(recs) :
                            /\ recs[i].pos = p
                            /\ recs[i].id = act_id(acts[p])
                            /\ \A j \in 1..Len(recs) : recs[j].pos = p => j = i]_vars

\* three candidates came back in another order; the observed arm of the first
\* is as it was loaded and two arms were added
C29_Witness ==
    /\ Scored
    /\ Len(ret.recommendations) = 3
    /\ ret.recommendations[1].pos # 1
    /\ Len(arms) = 3
    /\ DictGet(arms, <<S_x, _get_context_bucket(8, S_food)>>) = [alpha |-> 2, beta |-> 1]
    /\ DictGet(arms, <<S_empty, _get_context_bucket(8, S_outdoor)>>) = NewArm

\* C30: a feedback request that has no event_type field is handled as an
\* 'impression': the response names that event type with reward 0, the beta
\* of the addressed arm grows by 1 and, when the request has a userId, that
\* user's profile is updated with reward 0.
C30_NoEventTypeIsImpression ==
    [][\A data \in {r \in Requests : "event_type" \notin r.has} :
          Served(data) =>
              LET response == feedback_response(arms', profiles', data)
              IN  /\ response.event_type = "impression"
                  /\ response.reward = <<0>>
                  /\ GainsBeta(data)
                  /\ ~Falsy(user_id_of(data)) => ProfileUpdated(data, 0)]_vars

\* the event without event_type was handled: the arm has one skip and the new
\* user's food affinity went from 0.5 to 0.45
C30_Witness ==
    /\ sent[Body(AllFields \ {"event_type"}, S_x, S_food, 8, "impression", S_newbie)] = 1
    /\ \A r \in Requests : pending[r] = 0
    /\ Total(sent, Requests) = 1
    /\ DictGet(arms, <<S_x, _get_context_bucket(8, S_food)>>) = [alpha |-> 1, beta |-> 2]
    /\ profiles[S_newbie][ProfileKey(S_food)] = 450

====
